---- MODULE Spec2Model ----
(***************************************************************************)
(* Lea-Tester: a benchmark harness that collects the images of a folder,   *)
(* deduplicates them, converts them to PPM with GraphicsMagick, runs the   *)
(* Lea 0.4 and 0.5 compressors and decompressors three times each, and     *)
(* writes a report.                                                        *)
(*                                                                         *)
(* utils.js (traverse, cleanList, toTestbed, normalizeToPPM,               *)
(* getPPMStatistics, getAllFiles) is src/index_remastered.js:219-348;      *)
(* index.js (runSync, processEverything) is src/unnamed/part_000.          *)
(***************************************************************************)
EXTENDS Integers, Sequences, FiniteSets, TLC

(***************************************************************************)
(* Bounds of the model.                                                    *)
(***************************************************************************)
\* longest directory listing the cleaning specification draws
MaxTree == 3
\* longest directory listing the pipeline specification draws
MaxFiles == 2
\* wall-clock durations Date.now() differences are drawn from: 0..MaxDur
MaxDur == 1
\* failing external invocations (compressor, decompressor) in one run
MaxFaults == 3

(***************************************************************************)
(* JavaScript numbers.  A value is [t, n, d]: a rational n/d (d > 0, in    *)
(* lowest terms) when t = "num", else NaN, +Infinity, -Infinity, or the    *)
(* value undefined (a missing key, NaN in arithmetic).                     *)
(***************************************************************************)
RECURSIVE Gcd(_, _)
Gcd(a, b) == IF b = 0 THEN a ELSE Gcd(b, a % b)

Abs(x) == IF x < 0 THEN -x ELSE x

Rat(n, d) ==
    LET g == Gcd(Abs(n), Abs(d))
        s == IF d < 0 THEN -1 ELSE 1
    IN  [t |-> "num", n |-> (s * n) \div g, d |-> (s * d) \div g]

Num(i) == [t |-> "num", n |-> i, d |-> 1]
NaN == [t |-> "nan", n |-> 0, d |-> 1]
Infinity == [t |-> "inf", n |-> 0, d |-> 1]
NegInfinity == [t |-> "ninf", n |-> 0, d |-> 1]
Undefined == [t |-> "undef", n |-> 0, d |-> 1]

IsNum(x) == x.t = "num"
IsNaNish(x) == x.t \in {"nan", "undef"}
Negate(x) ==
    CASE x.t = "num" -> Rat(-x.n, x.d)
      [] x.t = "inf" -> NegInfinity
      [] x.t = "ninf" -> Infinity
      [] OTHER -> NaN

\* x + y
JsAdd(x, y) ==
    CASE IsNaNish(x) \/ IsNaNish(y) -> NaN
      [] IsNum(x) /\ IsNum(y) -> Rat(x.n * y.d + y.n * x.d, x.d * y.d)
      [] IsNum(x) -> y
      [] IsNum(y) -> x
      [] x.t = y.t -> x
      [] OTHER -> NaN

\* x - y
JsSub(x, y) == JsAdd(x, Negate(y))

Sign(x) ==
    CASE x.t = "inf" -> 1
      [] x.t = "ninf" -> -1
      [] x.n > 0 -> 1
      [] x.n < 0 -> -1
      [] OTHER -> 0

FromSign(s) == IF s > 0 THEN Infinity ELSE NegInfinity

\* x * y
JsMul(x, y) ==
    CASE IsNaNish(x) \/ IsNaNish(y) -> NaN
      [] IsNum(x) /\ IsNum(y) -> Rat(x.n * y.n, x.d * y.d)
      [] Sign(x) = 0 \/ Sign(y) = 0 -> NaN
      [] OTHER -> FromSign(Sign(x) * Sign(y))

\* x / y (IEEE: n/0 is an infinity, 0/0 is NaN; the sign of a zero is not kept)
JsDiv(x, y) ==
    CASE IsNaNish(x) \/ IsNaNish(y) -> NaN
      [] IsNum(x) /\ IsNum(y) ->
            IF y.n # 0 THEN Rat(x.n * y.d, x.d * y.n)
            ELSE IF x.n = 0 THEN NaN ELSE FromSign(Sign(x))
      [] IsNum(x) -> Num(0)
      [] IsNum(y) -> FromSign(Sign(x) * (IF Sign(y) < 0 THEN -1 ELSE 1))
      [] OTHER -> NaN

\* x < y on finite numbers
NumLess(x, y) == x.n * y.d < y.n * x.d

(***************************************************************************)
(* Objects: functions from property names to values.                       *)
(***************************************************************************)
Has(obj, k) == k \in DOMAIN obj
\* obj[k], undefined when the property is missing
Get(obj, k) == IF Has(obj, k) THEN obj[k] ELSE Undefined
\* { ...obj, ...more }
Spread(obj, more) == more @@ obj
\* delete obj[k]
Delete(obj, k) == [x \in (DOMAIN obj) \ {k} |-> obj[x]]

(***************************************************************************)
(* Paths.  A file of the scanned tree is [dir, stem, ext, size, hash]:     *)
(* its place and what statSync and sha256File read from it.                *)
(***************************************************************************)
basename(file) == [stem |-> file.stem, ext |-> file.ext]
extname(file) == file.ext
fullpath(file) == [dir |-> file.dir, stem |-> file.stem, ext |-> file.ext]

toLowerCase(s) ==
    CASE s = ".JPG" -> ".jpg"
      [] s = ".PNG" -> ".png"
      [] s = ".Png" -> ".png"
      [] s = ".PPM" -> ".ppm"
      [] s = ".TXT" -> ".txt"
      [] OTHER -> s

validFileExtensions ==
    {".jpg", ".jpeg", ".png", ".gif", ".bmp", ".tiff", ".tif", ".webp",
     ".svg", ".psd", ".ai", ".eps", ".ppm", ".pgm", ".pbm", ".pnm", ".pam",
     ".pfm", ".pcx", ".xwd"}

(***************************************************************************)
(* cleanList: filter on the extension, then reduce with deduper.           *)
(***************************************************************************)
\* the mutant of deduper that looks only at the entry pushed last
deduperAdjacent(acc, curr) ==
    LET fileSize == Num(curr.size)
        sha256 == curr.hash
        entry == [fullname |-> fullpath(curr), filename |-> basename(curr),
                  originalSize |-> fileSize, originalsha256 |-> sha256]
    IN  IF curr.size = 0 THEN acc
        ELSE IF Len(acc) > 0 /\ acc[Len(acc)].originalSize = fileSize
                             /\ acc[Len(acc)].originalsha256 = sha256
             THEN acc
             ELSE Append(acc, entry)

\* the mutant of deduper that puts a later file in the place of the first
deduperKeepLast(acc, curr) ==
    LET fileSize == Num(curr.size)
        sha256 == curr.hash
        entry == [fullname |-> fullpath(curr), filename |-> basename(curr),
                  originalSize |-> fileSize, originalsha256 |-> sha256]
    IN  IF curr.size = 0 THEN acc
        ELSE IF \E i \in 1..Len(acc) :
                    /\ acc[i].originalSize = fileSize
                    /\ acc[i].originalsha256 = sha256
             THEN [i \in 1..Len(acc) |->
                     IF /\ acc[i].originalSize = fileSize
                        /\ acc[i].originalsha256 = sha256
                     THEN entry ELSE acc[i]]
             ELSE Append(acc, entry)

deduper(acc, curr) ==
    LET fileSize == Num(curr.size)
        sha256 == curr.hash
        entry == [fullname |-> fullpath(curr), filename |-> basename(curr),
                  originalSize |-> fileSize, originalsha256 |-> sha256]
    IN  IF curr.size = 0 THEN acc
        ELSE IF \E i \in 1..Len(acc) :
                    /\ acc[i].originalSize = fileSize
                    /\ acc[i].originalsha256 = sha256
             THEN acc
             ELSE Append(acc, entry)

RECURSIVE reduceDeduper(_, _)
reduceDeduper(files, acc) ==
    IF files = << >> THEN acc
    ELSE reduceDeduper(Tail(files), deduper(acc, Head(files)))

isValidFile(file) == toLowerCase(extname(file)) \in validFileExtensions

cleanList(files) == reduceDeduper(SelectSeq(files, isValidFile), << >>)

(***************************************************************************)
(* The inputs: what traverse returns for the scanned folder.               *)
(***************************************************************************)
\* (size, hash) of a file's content; the empty file has one hash
Contents == {<<0, "h0">>, <<1, "h1">>, <<1, "h2">>, <<2, "h2">>}

MkFile(dir, stem, ext, content) ==
    [dir |-> dir, stem |-> stem, ext |-> ext,
     size |-> content[1], hash |-> content[2]]

\* the places the cleaning specification draws its files from
CleanPaths ==
    {<<"d1", "a", ".jpg">>, <<"d2", "a", ".jpg">>, <<"d1", "b", ".PNG">>,
     <<"d1", "c", ".txt">>}
CleanFiles == {MkFile(p[1], p[2], p[3], c) : p \in CleanPaths, c \in Contents}

HasPath(s, f) == \E i \in 1..Len(s) : fullpath(s[i]) = fullpath(f)

\* sequences of files of `universe`, at most n long, no path listed twice
RECURSIVE Listings(_, _)
Listings(universe, n) ==
    IF n = 0 THEN {<< >>}
    ELSE LET shorter == Listings(universe, n - 1)
         IN  shorter \cup
             UNION {{Append(s, f) : f \in {g \in universe : ~HasPath(s, g)}} :
                        s \in {x \in shorter : Len(x) = n - 1}}

\* the files the pipeline specification draws from, in the order of the walk
PipeOrder ==
    << MkFile("d1", "a", ".jpg", <<1, "h1">>),
       MkFile("d1", "b", ".PNG", <<2, "h2">>),
       MkFile("d1", "b", ".ppm", <<2, "h2">>),
       MkFile("d1", "a", ".txt", <<1, "h1">>),
       MkFile("d2", "b", ".jpg", <<1, "h1">>),
       MkFile("d2", "a", ".PNG", <<0, "h0">>),
       MkFile("d2", "a", ".jpg", <<2, "h2">>) >>

RECURSIVE SubListing(_, _)
\* the files of PipeOrder at the places S, in order, from place i on
SubListing(S, i) ==
    IF i > Len(PipeOrder) THEN << >>
    ELSE IF i \in S THEN <<PipeOrder[i]>> \o SubListing(S, i + 1)
         ELSE SubListing(S, i + 1)

PipeListings ==
    {SubListing(S, 1) : S \in {T \in SUBSET (1..Len(PipeOrder)) :
                                    Cardinality(T) <= MaxFiles}}

(***************************************************************************)
(* The scanned folder.  An entry of a directory is a file [stem, ext,      *)
(* size, hash] or a directory [stem, ext, entries]; readdirSync gives the  *)
(* entries in the order of the sequence.                                   *)
(***************************************************************************)
IsDirectory(entry) == "entries" \in DOMAIN entry

\* path.join(directory, file)
join(directory, name) ==
    IF directory = "." THEN name ELSE directory \o "/" \o name

\* the mutant of traverse that does not go into the directories
RECURSIVE traverseShallow(_, _)
traverseShallow(directory, entries) ==
    IF entries = << >> THEN << >>
    ELSE LET file == Head(entries)
         IN  (IF IsDirectory(file) THEN << >>
              ELSE <<MkFile(directory, file.stem, file.ext,
                            <<file.size, file.hash>>)>>)
             \o traverseShallow(directory, Tail(entries))

\* traverse(directory), entries being what readdirSync(directory) returns
RECURSIVE traverse(_, _)
traverse(directory, entries) ==
    IF entries = << >> THEN << >>
    ELSE LET file == Head(entries)
         IN  (IF IsDirectory(file)
              THEN traverse(join(directory, file.stem \o file.ext),
                            file.entries)
              ELSE <<MkFile(directory, file.stem, file.ext,
                            <<file.size, file.hash>>)>>)
             \o traverse(directory, Tail(entries))

FileEntry(stem, ext, content) ==
    [stem |-> stem, ext |-> ext, size |-> content[1], hash |-> content[2]]
DirEntry(stem, ext, entries) == [stem |-> stem, ext |-> ext, entries |-> entries]

\* the folder a listing comes from: the files of one directory, next to each
\* other in the listing, are the entries of that directory
RECURSIVE DiskOf(_)
DiskOf(listing) ==
    IF listing = << >> THEN << >>
    ELSE LET f == listing[Len(listing)]
             e == FileEntry(f.stem, f.ext, <<f.size, f.hash>>)
             before == DiskOf(SubSeq(listing, 1, Len(listing) - 1))
         IN  IF before # << >> /\ before[Len(before)].stem = f.dir
             THEN [before EXCEPT ![Len(before)].entries = Append(@, e)]
             ELSE Append(before, DirEntry(f.dir, "", <<e>>))

PipeDisks == {DiskOf(listing) : listing \in PipeListings}

\* the entries the walking specification builds its folders from: files, one
\* of them empty, one not an image, and directories, one named like an image
\* with a directory in it, one empty
WalkEntries ==
    {FileEntry("a", ".jpg", <<1, "h1">>),
     FileEntry("b", ".PNG", <<1, "h1">>),
     FileEntry("c", ".txt", <<1, "h2">>),
     FileEntry("e", ".jpg", <<0, "h0">>),
     DirEntry("d", ".jpg",
              <<FileEntry("a", ".jpg", <<2, "h2">>),
                DirEntry("s", "", <<FileEntry("f", ".Png", <<1, "h2">>),
                                    FileEntry("g", ".jpg", <<0, "h0">>)>>),
                FileEntry("h", ".md", <<2, "h2">>)>>),
     DirEntry("x", ".png", << >>)}

HasName(s, e) ==
    \E i \in 1..Len(s) : s[i].stem = e.stem /\ s[i].ext = e.ext

\* folders of at most n entries of `universe`, no name twice
RECURSIVE Folders(_, _)
Folders(universe, n) ==
    IF n = 0 THEN {<< >>}
    ELSE LET shorter == Folders(universe, n - 1)
         IN  shorter \cup
             UNION {{Append(s, e) : e \in {g \in universe : ~HasName(s, g)}} :
                        s \in {x \in shorter : Len(x) = n - 1}}

Variants == {"0.4", "0.5"}

VARIABLES
    pc,         \* where the program is
    disk,       \* the entries of the scanned folder, until it is walked
    tree,       \* what traverse returns (its files array), until it is cleaned
    allFiles,   \* the FileRecords
    isWindows,  \* process.platform === "win32"
    img,        \* the img folder: filename -> (size, hash) of the working copy
    ppm,        \* tmp/ppm: filename -> [st, src], the artifact gm writes
    lea,        \* tmp/lea4, tmp/lea5: <<filename, variant>> -> is there an output
    restored,   \* tmp/restored4, tmp/restored5: <<filename, variant>> -> its state
    report,     \* the report array
    pass,       \* the forEach running: 1 C04, 2 C05, 3 R04, 4 R05
    idx,        \* the index (from 1) of the file the running loop is at
    times,      \* the times array of the running callback
    rejected,   \* a callback threw: its promise is rejected, nobody handles it
    error,      \* what ended the run early
    reportFile, \* report.jsonc on disk
    faults,     \* failing invocations so far
    invs,       \* history: <<file index, pass>> -> invocations started
    last,       \* history: the runs of the running callback
    finalized,  \* history: files whose last stage (R05) has ended
    gmInPath,   \* the environment: `gm version` can be run
    wineInPath, \* the environment: `wine --version` can be run
    exitCode,   \* the exit code of the process, -1 while it has not exited
    norms,      \* history: file index -> normalizations started for it
    inFlight    \* history: timed invocations started that have not returned

vars == <<pc, disk, tree, allFiles, isWindows, img, ppm, lea, restored, report, pass,
          idx, times, rejected, error, reportFile, faults, invs, last,
          finalized, gmInPath, wineInPath, exitCode, norms, inFlight>>

pipeVars == <<isWindows, img, ppm, lea, restored, report, pass, idx, times,
              rejected, error, reportFile, faults, invs, last, finalized,
              gmInPath, wineInPath, exitCode, norms, inFlight>>

\* what only the checks at the start of index.js touch
envVars == <<gmInPath, wineInPath, exitCode>>

NoFile == [written |-> FALSE, records |-> << >>]
EmptyMap == [x \in {} |-> 0]
NoRuns == [file |-> 0, pass |-> 0, log |-> << >>]

InitPipe ==
    /\ img = EmptyMap
    /\ ppm = EmptyMap
    /\ lea = {}
    /\ restored = EmptyMap
    /\ report = << >>
    /\ pass = 0
    /\ idx = 0
    /\ times = << >>
    /\ rejected = FALSE
    /\ error = "none"
    /\ reportFile = NoFile
    /\ faults = 0
    /\ invs = EmptyMap
    /\ last = NoRuns
    /\ finalized = 0
    /\ exitCode = -1
    /\ norms = EmptyMap
    /\ inFlight = 0

(***************************************************************************)
(* The cleaning specification: cleanList on every listing.                 *)
(***************************************************************************)
InitClean ==
    /\ pc = "collect"
    /\ tree \in Listings(CleanFiles, MaxTree)
    /\ disk = << >>
    /\ allFiles = << >>
    /\ isWindows = FALSE
    /\ gmInPath = TRUE
    /\ wineInPath = TRUE
    /\ InitPipe

CleanStep ==
    /\ pc = "collect"
    /\ allFiles' = cleanList(tree)
    /\ pc' = "cleaned"
    /\ UNCHANGED <<disk, tree, pipeVars>>

NextClean == CleanStep

SpecClean == InitClean /\ [][NextClean]_vars

(***************************************************************************)
(* The walking specification: cleanList(traverse(directory)) on every      *)
(* folder.                                                                 *)
(***************************************************************************)
InitWalk ==
    /\ pc = "collect"
    /\ disk \in Folders(WalkEntries, MaxTree)
    /\ tree = traverse(".", disk)
    /\ allFiles = << >>
    /\ isWindows = FALSE
    /\ gmInPath = TRUE
    /\ wineInPath = TRUE
    /\ InitPipe

SpecWalk == InitWalk /\ [][NextClean]_vars

(***************************************************************************)
(* C2.  cleanList leaves no two FileRecords with the same originalSize and *)
(* originalsha256, and the input files of the deduplication (allow-listed, *)
(* not empty) that have one size and hash are one record: each (size,      *)
(* hash) of such a file is the key of exactly one record, and no record    *)
(* has another key.                                                        *)
(***************************************************************************)
isCandidate(file) == isValidFile(file) /\ file.size # 0
HasKeyOf(rec, file) ==
    rec.originalSize = Num(file.size) /\ rec.originalsha256 = file.hash

C2_DedupKeyUnique ==
    pc = "cleaned" =>
        /\ \A i, j \in 1..Len(allFiles) :
              (/\ allFiles[i].originalSize = allFiles[j].originalSize
               /\ allFiles[i].originalsha256 = allFiles[j].originalsha256)
              => i = j
        /\ \A k \in 1..Len(tree) : isCandidate(tree[k]) =>
              Cardinality({i \in 1..Len(allFiles) :
                              HasKeyOf(allFiles[i], tree[k])}) = 1
        /\ \A i \in 1..Len(allFiles) : \E k \in 1..Len(tree) :
              isCandidate(tree[k]) /\ HasKeyOf(allFiles[i], tree[k])

\* a listing with a file, another one, and then a copy of the first
C2_Witness ==
    /\ pc = "cleaned"
    /\ Len(tree) = 3
    /\ isCandidate(tree[1]) /\ isCandidate(tree[2])
    /\ tree[3].size = tree[1].size /\ tree[3].hash = tree[1].hash
    /\ isCandidate(tree[3])
    /\ tree[2].hash # tree[1].hash
    /\ Len(allFiles) = 2

(***************************************************************************)
(* utils.js: toTestbed, normalizeToPPM, getPPMStatistics.                  *)
(***************************************************************************)
\* the working copy of `image` lands at img/<filename>: linkSync makes it, or,
\* when the link fails (the name is taken, another device), copyFileSync
\* writes over what is there
RECURSIVE materialize(_, _)
materialize(files, folder) ==
    IF files = << >> THEN folder
    ELSE LET image == Head(files)
             newFile == image.filename
             content == <<image.originalSize, image.originalsha256>>
         IN  materialize(Tail(files),
                         (newFile :> content) @@
                         [f \in (DOMAIN folder) \ {newFile} |-> folder[f]])

toTestbed(files) ==
    [files |-> [i \in 1..Len(files) |-> Delete(files[i], "fullname")],
     img |-> materialize(files, EmptyMap)]

\* what gm writes for a working copy with content hash h, once it is done
PpmOf(h) ==
    CASE h = "h1" -> [size |-> 3, hash |-> "p1"]
      [] h = "h2" -> [size |-> 4, hash |-> "p2"]
      [] OTHER -> [size |-> 2, hash |-> "p0"]
\* what is on disk while gm is still writing
PartialOf(h) == [size |-> 1, hash |-> "partial"]

\* where the loops go after the file at i of the stage `at`
AfterFile(at, i) ==
    IF i < Len(allFiles) THEN [pc |-> at, idx |-> i + 1]
    ELSE IF at = "normalize" THEN [pc |-> "stats", idx |-> 1]
    ELSE [pc |-> "pass", idx |-> 1]

\* getAllFiles, first part: cleanList(traverse(directory)) and toTestbed
Collect ==
    /\ pc = "collect"
    /\ LET bed == toTestbed(cleanList(tree))
       IN  /\ allFiles' = bed.files
           /\ img' = bed.img
           /\ ppm' = [f \in DOMAIN bed.img |-> [st |-> "none", src |-> "none"]]
           /\ IF Len(bed.files) = 0
              THEN pc' = "write" /\ idx' = 0
              ELSE pc' = "normalize" /\ idx' = 1
    /\ tree' = << >>
    /\ disk' = << >>
    /\ UNCHANGED <<envVars, inFlight, norms, isWindows, lea, restored, report, pass, times, rejected,
                   error, reportFile, faults, invs, last, finalized>>

\* normalizeToPPM, one turn of files.forEach
\* the normalizations started so far for the file at i
NormsOf(i) == IF i \in DOMAIN norms THEN norms[i] ELSE 0

Normalize ==
    /\ pc = "normalize"
    /\ LET file == allFiles[idx]
           fn == file.filename
       IN  IF toLowerCase(fn.ext) = ".ppm"
           THEN \* path.join(ppmTempFolder, file.filename.ppm): the second
                \* argument is undefined, path.join throws a TypeError
                /\ pc' = "crashed"
                /\ error' = "TypeError"
                /\ UNCHANGED <<ppm, idx, pass, norms>>
           ELSE \* convert(currentFile): gm is started, nobody waits for it
                /\ ppm' = [ppm EXCEPT ![fn] =
                             [st |-> IF @.st \in {"none", "failed"}
                                     THEN "spawned" ELSE "writing",
                              src |-> img[fn][2]]]
                /\ pc' = AfterFile("normalize", idx).pc
                /\ idx' = AfterFile("normalize", idx).idx
                /\ pass' = pass
                /\ error' = error
                /\ norms' = (idx :> NormsOf(idx) + 1) @@ norms
    /\ UNCHANGED <<envVars, disk, inFlight, tree, allFiles, isWindows, img, lea, restored, report, times,
                   rejected, reportFile, faults, invs, last, finalized>>

Running == pc \in {"normalize", "stats", "pass", "blocked", "write"}
\* gm is followed as long as the program still reads tmp/ppm
Reading == pc \in {"normalize", "stats"} \/ (pc = "pass" /\ pass <= 2)

\* a gm child process gets on with its work, whatever the program is doing
GmStartsWriting(fn) ==
    /\ Reading
    /\ ppm[fn].st = "spawned"
    /\ ppm' = [ppm EXCEPT ![fn].st = "writing"]
    /\ UNCHANGED <<envVars, disk, inFlight, norms, pc, tree, allFiles, isWindows, img, lea, restored, report,
                   pass, idx, times, rejected, error, reportFile, faults, invs,
                   last, finalized>>

GmCompletes(fn) ==
    /\ Reading
    /\ ppm[fn].st = "writing"
    /\ ppm' = [ppm EXCEPT ![fn].st = "complete"]
    /\ UNCHANGED <<envVars, disk, inFlight, norms, pc, tree, allFiles, isWindows, img, lea, restored, report,
                   pass, idx, times, rejected, error, reportFile, faults, invs,
                   last, finalized>>

\* gm exits with an error and leaves no output
GmFails(fn) ==
    /\ Reading
    /\ ppm[fn].st = "spawned"
    /\ ppm' = [ppm EXCEPT ![fn].st = "failed"]
    /\ UNCHANGED <<envVars, disk, inFlight, norms, pc, tree, allFiles, isWindows, img, lea, restored, report,
                   pass, idx, times, rejected, error, reportFile, faults, invs,
                   last, finalized>>

\* what statSync and sha256File read at an artifact in state a
ReadPpm(a) == IF a.st = "complete" THEN PpmOf(a.src) ELSE PartialOf(a.src)

\* getPPMStatistics, one turn of files.map
Statistics ==
    /\ pc = "stats"
    /\ LET file == allFiles[idx]
           fn == file.filename
           a == ppm[fn]
       IN  IF a.st \in {"none", "spawned", "failed"}
           THEN \* fs.statSync(ppmFile) throws ENOENT
                /\ pc' = "crashed"
                /\ error' = "ENOENT"
                /\ UNCHANGED <<allFiles, idx, pass>>
           ELSE /\ allFiles' = [allFiles EXCEPT ![idx] =
                       Spread(file, [ppmFile |-> fn,
                                     ppmSize |-> Num(ReadPpm(a).size),
                                     ppmsha256 |-> ReadPpm(a).hash])]
                /\ pc' = AfterFile("stats", idx).pc
                /\ idx' = AfterFile("stats", idx).idx
                /\ pass' = IF AfterFile("stats", idx).pc = "pass" THEN 1 ELSE pass
                /\ error' = error
    /\ UNCHANGED <<envVars, disk, inFlight, norms, tree, isWindows, img, ppm, lea, restored, report, times,
                   rejected, reportFile, faults, invs, last, finalized>>

(***************************************************************************)
(* index.js: runSync and the four forEach loops of processEverything.      *)
(***************************************************************************)
VariantOf(p) == IF p \in {1, 3} THEN "0.4" ELSE "0.5"
IsCompress(p) == p \in {1, 2}

\* runSync: the time execSync took, or -1 when it threw
runSync(outcome, d) == IF outcome = "ok" THEN Num(d) ELSE Num(-1)

\* the invocations started so far for file i in loop p
InvOf(i, p) == IF <<i, p>> \in DOMAIN invs THEN invs[<<i, p>>] ELSE 0

Counted == (<<idx, pass>> :> InvOf(idx, pass) + 1) @@ invs

\* the runs of the running callback, with what each really did
Logged(ok, d) ==
    [file |-> idx, pass |-> pass,
     log |-> Append(IF times = << >> THEN << >> ELSE last.log,
                    [ok |-> ok, d |-> d])]

\* the durations drawn: every one of 0..MaxDur in a run of one FileRecord,
\* MaxDur alone in a longer run
Durations == IF Len(allFiles) = 1 THEN 0..MaxDur ELSE {MaxDur}

CurKey == <<allFiles[idx].filename, VariantOf(pass)>>

\* the decompressor has something to read
HasInput == IsCompress(pass) \/ CurKey \in lea

\* one turn of the for loop: the command exits with 0 after d ms
InvokeOk ==
    /\ pc = "pass"
    /\ Len(times) < 3
    /\ HasInput
    /\ \E d \in Durations :
          /\ times' = Append(times, runSync("ok", d))
          /\ last' = Logged(TRUE, d)
    /\ invs' = Counted
    /\ IF IsCompress(pass)
       THEN lea' = lea \cup {CurKey} /\ UNCHANGED <<restored, faults>>
       ELSE /\ lea' = lea
            /\ \/ restored' = (CurKey :> "same") @@ restored /\ faults' = faults
               \/ /\ faults < MaxFaults
                  /\ restored' = (CurKey :> "diff") @@ restored
                  /\ faults' = faults + 1
    /\ UNCHANGED <<envVars, disk, inFlight, norms, pc, tree, allFiles, isWindows, img, ppm, report, pass, idx,
                   rejected, error, reportFile, finalized>>

\* one turn of the for loop: the command fails (exit code, launch error)
InvokeFail ==
    /\ pc = "pass"
    /\ Len(times) < 3
    /\ \/ faults < MaxFaults /\ faults' = faults + 1
       \/ ~HasInput /\ faults' = faults
    /\ times' = Append(times, runSync("fail", MaxDur))
    /\ last' = Logged(FALSE, MaxDur)
    /\ invs' = Counted
    /\ UNCHANGED <<envVars, disk, inFlight, norms, pc, tree, allFiles, isWindows, img, ppm, lea, restored, report,
                   pass, idx, rejected, error, reportFile, finalized>>

\* the mutant of InvokeHang that starts the command and does not wait for it
InvokeHangAsync ==
    /\ pc = "pass"
    /\ Len(times) < 3
    /\ pc' = pc
    /\ invs' = Counted
    /\ inFlight' = inFlight + 1
    /\ UNCHANGED <<envVars, disk, norms, tree, allFiles, isWindows, img, ppm, lea,
                   restored, report, pass, idx, times, rejected, error,
                   reportFile, faults, last, finalized>>

\* one turn of the for loop: the command never exits; execSync has no timeout
\* and returns to nobody while the child runs
InvokeHang ==
    /\ pc = "pass"
    /\ Len(times) < 3
    /\ pc' = "blocked"
    /\ invs' = Counted
    /\ inFlight' = inFlight + 1
    /\ UNCHANGED <<envVars, disk, norms, tree, allFiles, isWindows, img, ppm, lea,
                   restored, report, pass, idx, times, rejected, error,
                   reportFile, faults, last, finalized>>

RECURSIVE MathMin(_)
\* Math.min(...times), times not empty and finite
MathMin(ts) ==
    IF Len(ts) = 1 THEN ts[1]
    ELSE LET m == MathMin(Tail(ts))
         IN  IF NumLess(ts[1], m) THEN ts[1] ELSE m

\* the size of the lea output, by content and variant
CompressedSize(file, v) ==
    CASE file.originalsha256 = "h1" -> IF v = "0.4" THEN 2 ELSE 1
      [] file.originalsha256 = "h2" -> IF v = "0.4" THEN 1 ELSE 3
      [] OTHER -> 1

\* `du -b f | cut -f1` parsed, or `wc -c f` on Windows: [ok, v]; wc exits with
\* an error for a missing file and execSync throws, the du pipeline prints
\* nothing and parseInt gives NaN
SizeOnDisk(exists, size) ==
    IF exists THEN [ok |-> TRUE, v |-> Num(size)]
    ELSE IF isWindows THEN [ok |-> FALSE, v |-> NaN]
    ELSE [ok |-> TRUE, v |-> NaN]

\* report.findIndex(r => file.originalsha256 === r.originalsha256); the
\* indices are from 1 here, 0 stands for JavaScript's -1
RECURSIVE findIndexFrom(_, _, _)
findIndexFrom(rep, sha, i) ==
    IF i > Len(rep) THEN 0
    ELSE IF rep[i].originalsha256 = sha THEN i
    ELSE findIndexFrom(rep, sha, i + 1)

findIndex(rep, sha) == findIndexFrom(rep, sha, 1)

\* ppmSize / (minTime / 1000)
Speed(size, minTime) == JsDiv(size, JsDiv(minTime, Num(1000)))
\* compressedSize / size * 100
Ratio(compressedSize, size) == JsMul(JsDiv(compressedSize, size), Num(100))

\* the callback of the first loop after its three runs: [threw, report]
CallbackC04(file, rep, ts) ==
    LET minTime == MathMin(ts)
        cs == SizeOnDisk(<<file.filename, "0.4">> \in lea,
                         CompressedSize(file, "0.4"))
        compressedSize == cs.v
    IN  IF ~cs.ok THEN [threw |-> TRUE, report |-> rep]
        ELSE [threw |-> FALSE,
              report |-> Append(rep, Spread(file,
                  ("cTime0.4" :> minTime) @@
                  ("cSpeed0.4" :> Speed(file.ppmSize, minTime)) @@
                  ("cSize0.4" :> compressedSize) @@
                  ("cRatio0.4" :> Ratio(compressedSize, file.originalSize)) @@
                  ("cRatioPPM0.4" :> Ratio(compressedSize, file.ppmSize))))]

\* the callback of the second loop
CallbackC05(file, rep, ts) ==
    LET minTime == MathMin(ts)
        cs == SizeOnDisk(<<file.filename, "0.5">> \in lea,
                         CompressedSize(file, "0.5"))
        compressedSize == cs.v
        index == findIndex(rep, file.originalsha256)
        cRatio == Ratio(compressedSize, file.originalSize)
    IN  IF ~cs.ok \/ index = 0
        THEN \* report[-1] is undefined: reading its "cTime0.4" throws
             [threw |-> TRUE, report |-> rep]
        ELSE [threw |-> FALSE,
              report |-> [rep EXCEPT ![index] = Spread(@,
                  ("cTime0.5" :> minTime) @@
                  ("cSpeed0.5" :> Speed(file.ppmSize, minTime)) @@
                  ("cSize0.5" :> compressedSize) @@
                  ("cRatio0.5" :> cRatio) @@
                  ("cRatioPPM0.5" :> Ratio(compressedSize, file.ppmSize)) @@
                  ("cTimeDiff" :> JsSub(minTime, Get(@, "cTime0.4"))) @@
                  ("cRatioDiff" :> JsSub(cRatio, Get(@, "cRatio0.4"))))]]

\* the size of a restored file
RestoredSize(file, v) ==
    LET key == <<file.filename, v>>
    IN  IF key \notin DOMAIN restored THEN 0
        ELSE IF restored[key] = "same" THEN PpmOf(ppm[file.filename].src).size
        ELSE 1

\* the mutant of CallbackR04 that also writes its time over cTime0.4
CallbackR04Overwrite(file, rep, ts) ==
    LET minTime == MathMin(ts)
        index == findIndex(rep, file.originalsha256)
    IN  IF index = 0 THEN [threw |-> TRUE, report |-> rep]
        ELSE [threw |-> FALSE,
              report |-> [rep EXCEPT ![index] = Spread(@,
                  ("dTime0.4" :> minTime) @@
                  ("cTime0.4" :> minTime) @@
                  ("roundTrip0.4" :> JsAdd(Get(@, "cTime0.4"), minTime)))]]

\* the callback of the third loop
CallbackR04(file, rep, ts) ==
    LET minTime == MathMin(ts)
        ds == SizeOnDisk(<<file.filename, "0.4">> \in DOMAIN restored,
                         RestoredSize(file, "0.4"))
        decompressedSize == ds.v
        index == findIndex(rep, file.originalsha256)
    IN  IF ~ds.ok \/ index = 0 THEN [threw |-> TRUE, report |-> rep]
        ELSE [threw |-> FALSE,
              report |-> [rep EXCEPT ![index] = Spread(@,
                  ("dTime0.4" :> minTime) @@
                  ("dSpeed0.4" :> Speed(decompressedSize, minTime)) @@
                  ("roundTrip0.4" :> JsAdd(Get(@, "cTime0.4"), minTime)))]]

\* the callback of the fourth loop
CallbackR05(file, rep, ts) ==
    LET minTime == MathMin(ts)
        ds == SizeOnDisk(<<file.filename, "0.5">> \in DOMAIN restored,
                         RestoredSize(file, "0.5"))
        decompressedSize == ds.v
        index == findIndex(rep, file.originalsha256)
    IN  IF ~ds.ok \/ index = 0 THEN [threw |-> TRUE, report |-> rep]
        ELSE LET roundTrip == JsAdd(Get(rep[index], "cTime0.5"), minTime)
             IN  [threw |-> FALSE,
                  report |-> [rep EXCEPT ![index] = Delete(Spread(@,
                      ("dTime0.5" :> minTime) @@
                      ("dSpeed0.5" :> Speed(decompressedSize, minTime)) @@
                      ("dTimeDiff" :> JsSub(minTime, Get(@, "dTime0.4"))) @@
                      ("roundTrip0.5" :> roundTrip) @@
                      ("roundTripDiff" :>
                          JsSub(roundTrip, Get(@, "roundTrip0.4")))),
                      "ppmFile")]]

Callback(p, file, rep, ts) ==
    CASE p = 1 -> CallbackC04(file, rep, ts)
      [] p = 2 -> CallbackC05(file, rep, ts)
      [] p = 3 -> CallbackR04(file, rep, ts)
      [] OTHER -> CallbackR05(file, rep, ts)

\* the mutant of Finish that does not wait for the three runs
FinishEarly ==
    /\ pc = "pass"
    /\ Len(times) >= 1
    /\ LET r == Callback(pass, allFiles[idx], report, times)
       IN  /\ report' = r.report
           /\ rejected' = (rejected \/ r.threw)
    /\ times' = << >>
    /\ last' = NoRuns
    /\ finalized' = IF pass = 4 THEN finalized + 1 ELSE finalized
    /\ IF idx < Len(allFiles) THEN pc' = pc /\ idx' = idx + 1 /\ pass' = pass
       ELSE IF pass < 4 THEN pc' = pc /\ idx' = 1 /\ pass' = pass + 1
       ELSE pc' = "write" /\ idx' = idx /\ pass' = pass
    /\ UNCHANGED <<envVars, disk, inFlight, norms, tree, allFiles, isWindows, img, ppm, lea, restored, error,
                   reportFile, faults, invs>>

\* the rest of a callback once the for loop has run three times, and on to
\* the next file, the next loop, or the end of the loops
Finish ==
    /\ pc = "pass"
    /\ Len(times) = 3
    /\ LET r == Callback(pass, allFiles[idx], report, times)
       IN  /\ report' = r.report
           /\ rejected' = (rejected \/ r.threw)
    /\ times' = << >>
    /\ last' = NoRuns
    /\ finalized' = IF pass = 4 THEN finalized + 1 ELSE finalized
    /\ IF idx < Len(allFiles) THEN pc' = pc /\ idx' = idx + 1 /\ pass' = pass
       ELSE IF pass < 4 THEN pc' = pc /\ idx' = 1 /\ pass' = pass + 1
       ELSE pc' = "write" /\ idx' = idx /\ pass' = pass
    /\ UNCHANGED <<envVars, disk, inFlight, norms, tree, allFiles, isWindows, img, ppm, lea, restored, error,
                   reportFile, faults, invs>>

\* JSON.stringify of a number: NaN and the infinities are written as null
Null == [t |-> "null", n |-> 0, d |-> 1]
StringKeys == {"filename", "originalsha256", "ppmsha256", "ppmFile", "fullname"}
stringify(rep) ==
    [i \in 1..Len(rep) |->
        [k \in {x \in DOMAIN rep[i] : x \in StringKeys \/ rep[i][x].t # "undef"} |->
            IF k \in StringKeys THEN rep[i][k]
            ELSE IF rep[i][k].t = "num" THEN rep[i][k] ELSE Null]]

\* fs.writeFileSync(report.jsonc, JSON.stringify(report))
WriteReport ==
    /\ pc = "write"
    /\ reportFile' = [written |-> TRUE, records |-> stringify(report)]
    /\ pc' = "done"
    /\ UNCHANGED <<envVars, disk, inFlight, norms, tree, allFiles, isWindows, img, ppm, lea, restored, report,
                   pass, idx, times, rejected, error, faults, invs, last, finalized>>

\* the operator interrupts the run: the process is gone, with all it held in
\* memory; what is on disk stays
Abort ==
    /\ Running
    /\ pc' = "aborted"
    /\ allFiles' = << >>
    /\ report' = << >>
    /\ times' = << >>
    /\ UNCHANGED <<envVars, disk, inFlight, norms, tree, isWindows, img, ppm, lea, restored, pass, idx, rejected,
                   error, reportFile, faults, invs, last, finalized>>

AllNames == {basename(PipeOrder[i]) : i \in 1..Len(PipeOrder)}

\* execSync(command, callback): the function in the place of the options is
\* dropped; the call returns the output of the command, a Buffer, or throws
\* when the command cannot be run or exits with an error
execSyncProbe(inPath) == IF inPath THEN "Buffer" ELSE "throws"

\* !value
Not(value) == value \in {"false", "undefined", "null"}

\* the checks at the top of index.js, before processEverything()
Checks ==
    /\ pc = "checks"
    /\ LET haveGm == execSyncProbe(gmInPath)
           haveWine == IF isWindows THEN "false"
                       ELSE IF haveGm = "throws" THEN "undefined"
                       ELSE execSyncProbe(wineInPath)
       IN  IF haveGm = "throws" \/ haveWine = "throws"
           THEN \* nothing catches the exception of execSync
                pc' = "exited" /\ exitCode' = 1 /\ error' = "execSync"
           ELSE IF Not(haveGm) \/ (~isWindows /\ Not(haveWine))
           THEN pc' = "exited" /\ exitCode' = 2 /\ error' = "dependency"
           ELSE pc' = "collect" /\ exitCode' = exitCode /\ error' = error
    /\ UNCHANGED <<disk, tree, allFiles, isWindows, img, ppm, lea, restored,
                   report, pass, idx, times, rejected, reportFile, faults, invs,
                   last, finalized, gmInPath, wineInPath, norms, inFlight>>

\* wine is probed on Linux only; on Windows it is taken as absent
Init ==
    /\ pc = "checks"
    /\ disk \in PipeDisks
    /\ tree = traverse(".", disk)
    /\ allFiles = << >>
    /\ isWindows \in BOOLEAN
    /\ gmInPath \in BOOLEAN
    /\ wineInPath \in IF isWindows THEN {FALSE} ELSE BOOLEAN
    /\ InitPipe

Program ==
    \/ Checks
    \/ Collect
    \/ Normalize
    \/ Statistics
    \/ InvokeOk
    \/ InvokeFail
    \/ InvokeHang
    \/ Finish
    \/ WriteReport

Next ==
    \/ Program
    \/ \E fn \in AllNames : fn \in DOMAIN ppm /\ GmStartsWriting(fn)
    \/ \E fn \in AllNames : fn \in DOMAIN ppm /\ GmCompletes(fn)
    \/ \E fn \in AllNames : fn \in DOMAIN ppm /\ GmFails(fn)
    \/ Abort

Spec == Init /\ [][Next]_vars

(***************************************************************************)
(* What the claims speak of.                                               *)
(***************************************************************************)
\* the step that ends a callback
FinishStep == pc = "pass" /\ Len(times) = 3 /\ times' = << >> /\ pc' # "aborted"

TimeKey(p) ==
    CASE p = 1 -> "cTime0.4"
      [] p = 2 -> "cTime0.5"
      [] p = 3 -> "dTime0.4"
      [] OTHER -> "dTime0.5"

\* the record of the report for FileRecord `file`, an empty object if none
RecordOf(rep, file) ==
    LET k == findIndex(rep, file.originalsha256)
    IN  IF k = 0 THEN EmptyMap ELSE rep[k]

OkDurations(log) == {log[i].d : i \in {j \in 1..Len(log) : log[j].ok}}
MinOfSet(S) == CHOOSE m \in S : \A x \in S : m <= x

(***************************************************************************)
(* C3.  A callback ends after exactly 3 invocations, and the time it       *)
(* records for its (file, variant) is the least duration of the            *)
(* invocations that ran to their end.                                      *)
(***************************************************************************)
C3_MinOfThree ==
    [][FinishStep =>
        /\ Len(last.log) = 3
        /\ InvOf(idx, pass) = 3
        /\ LET rec == RecordOf(report', allFiles[idx])
           IN  (Has(rec, TimeKey(pass)) /\ OkDurations(last.log) # {}) =>
                  rec[TimeKey(pass)] = Num(MinOfSet(OkDurations(last.log)))]_vars

(***************************************************************************)
(* C4.  The time a callback records is the failure sentinel -1 exactly     *)
(* when every one of its 3 invocations failed; with at least one that      *)
(* ran to its end it is a duration, at least 0.                            *)
(***************************************************************************)
C4_SentinelIffAllFailed ==
    [][FinishStep =>
        LET rec == RecordOf(report', allFiles[idx])
        IN  Has(rec, TimeKey(pass)) =>
              /\ (rec[TimeKey(pass)] = Num(-1)) <=> (OkDurations(last.log) = {})
              /\ OkDurations(last.log) # {} =>
                    ~NumLess(rec[TimeKey(pass)], Num(0))]_vars

(***************************************************************************)
(* C1.  Whoever reads the normalized (PPM) artifact of a file finds it     *)
(* complete: statSync does not find it missing while gm still runs, the    *)
(* size and hash getPPMStatistics keeps are those of the finished          *)
(* conversion, and no compressor has run on an artifact still being        *)
(* written.                                                                *)
(***************************************************************************)
C1_NormalizedBeforeRead ==
    /\ (pc = "crashed" /\ error = "ENOENT") =>
          ppm[allFiles[idx].filename].st # "spawned"
    /\ \A i \in 1..Len(allFiles) : Has(allFiles[i], "ppmsha256") =>
          /\ allFiles[i].ppmsha256 = PpmOf(ppm[allFiles[i].filename].src).hash
          /\ allFiles[i].ppmSize = Num(PpmOf(ppm[allFiles[i].filename].src).size)
    /\ (pc = "pass" /\ IsCompress(pass) /\ Len(times) > 0) =>
          ppm[allFiles[idx].filename].st = "complete"

(***************************************************************************)
(* C5.  A (file, variant) whose recorded compress time is the failure      *)
(* sentinel -1 has had no decompressor invocation.                         *)
(***************************************************************************)
CTimeKey(v) == IF v = "0.4" THEN "cTime0.4" ELSE "cTime0.5"
DecompressPass(v) == IF v = "0.4" THEN 3 ELSE 4

C5_NoDecompressAfterFailedCompress ==
    \A i \in 1..Len(allFiles) : \A v \in Variants :
        Get(RecordOf(report, allFiles[i]), CTimeKey(v)) = Num(-1) =>
            InvOf(i, DecompressPass(v)) = 0

(***************************************************************************)
(* C6.  No invocation waits without end: when the external command never   *)
(* exits, the program still has a step to take (the timeout that makes     *)
(* the invocation a failure).                                              *)
(***************************************************************************)
C6_HungInvocationTimesOut == pc = "blocked" => ENABLED Program

(***************************************************************************)
(* C7.  A record holds a cross-variant delta only together with the        *)
(* results of both variants the delta is computed from.                    *)
(***************************************************************************)
DeltaOperands ==
    ("cTimeDiff" :> {"cTime0.4", "cTime0.5"}) @@
    ("cRatioDiff" :> {"cRatio0.4", "cRatio0.5"}) @@
    ("dTimeDiff" :> {"dTime0.4", "dTime0.5"}) @@
    ("roundTripDiff" :> {"roundTrip0.4", "roundTrip0.5"})

C7_DeltasAfterBothVariants ==
    \A i \in 1..Len(report) : \A delta \in DOMAIN DeltaOperands :
        Has(report[i], delta) =>
            \A k \in DeltaOperands[delta] : Has(report[i], k)

(***************************************************************************)
(* C8.  Every record of the written report has isIdentical, true exactly   *)
(* when the restored file of each variant has the hash of the record's     *)
(* PPM file.                                                               *)
(***************************************************************************)
\* sha256 of tmp/restoredN/<filename>.ppm.restored
RestoredHash(fn, v) ==
    IF <<fn, v>> \notin DOMAIN restored THEN "missing"
    ELSE IF restored[<<fn, v>>] = "same" THEN PpmOf(ppm[fn].src).hash
    ELSE "corrupt"

C8_IsIdentical ==
    reportFile.written =>
        \A i \in 1..Len(reportFile.records) :
            LET rec == reportFile.records[i]
            IN  /\ Has(rec, "isIdentical")
                /\ rec["isIdentical"] \in BOOLEAN
                /\ rec["isIdentical"] <=>
                      \A v \in Variants :
                          RestoredHash(rec["filename"], v) = rec["ppmsha256"]

(***************************************************************************)
(* C9.  When the run has ended and the normalization of a file failed,     *)
(* the report is written with one record per FileRecord: the failed file   *)
(* has null normalization and variant fields, every other file has the     *)
(* results of both variants.                                               *)
(***************************************************************************)
Ended == pc \in {"done", "crashed"}
VariantKeys ==
    {"cTime0.4", "cTime0.5", "cSize0.4", "cSize0.5", "dTime0.4", "dTime0.5"}

C9_FailureIsolated ==
    \A i \in 1..Len(allFiles) :
        (Ended /\ ppm[allFiles[i].filename].st = "failed") =>
            /\ reportFile.written
            /\ Len(reportFile.records) = Len(allFiles)
            /\ \A k \in {"ppmSize"} \cup VariantKeys :
                  Get(reportFile.records[i], k) = Null
            /\ \A j \in 1..Len(allFiles) :
                  ppm[allFiles[j].filename].st = "complete" =>
                      \A k \in VariantKeys :
                          Get(reportFile.records[j], k).t = "num"

(***************************************************************************)
(* C10.  After an abort the report file is there and holds exactly the     *)
(* records of the files that had completed all their stages.               *)
(***************************************************************************)
C10_PartialRunDurable ==
    pc = "aborted" =>
        /\ reportFile.written
        /\ Len(reportFile.records) = finalized

(***************************************************************************)
(* C11.  A finalized record (its last stage, the 0.5 decompression, has    *)
(* been recorded) holds each of the six deltas, and each is the 0.5 value  *)
(* minus the 0.4 value of the same record.                                 *)
(***************************************************************************)
\* delta -> <<the 0.4 key, the 0.5 key>>
DeltaSides ==
    ("cSizeDiff" :> <<"cSize0.4", "cSize0.5">>) @@
    ("cRatioDiff" :> <<"cRatio0.4", "cRatio0.5">>) @@
    ("cRatioPPMDiff" :> <<"cRatioPPM0.4", "cRatioPPM0.5">>) @@
    ("cTimeDiff" :> <<"cTime0.4", "cTime0.5">>) @@
    ("dTimeDiff" :> <<"dTime0.4", "dTime0.5">>) @@
    ("roundTripDiff" :> <<"roundTrip0.4", "roundTrip0.5">>)

IsFinalized(rec) == Has(rec, "dTime0.5")

C11_DeltasAreBMinusA ==
    \A i \in 1..Len(report) : IsFinalized(report[i]) =>
        \A delta \in DOMAIN DeltaSides :
            /\ Has(report[i], delta)
            /\ report[i][delta] = JsSub(Get(report[i], DeltaSides[delta][2]),
                                        Get(report[i], DeltaSides[delta][1]))

(***************************************************************************)
(* C12.  In the written report, a (file, variant) whose compress time is   *)
(* at most 0 (zero, or the failure sentinel -1) has the undefined marker   *)
(* null as its compress speed; with a positive time the speed is           *)
(* ppmSize / (time / 1000).                                                *)
(***************************************************************************)
CSpeedKey(v) == IF v = "0.4" THEN "cSpeed0.4" ELSE "cSpeed0.5"

C12_SpeedUndefinedAtNonPositiveTime ==
    reportFile.written =>
        \A i \in 1..Len(reportFile.records) : \A v \in Variants :
            LET rec == reportFile.records[i]
                time == Get(rec, CTimeKey(v))
            IN  IsNum(time) =>
                    IF time.n <= 0
                    THEN Get(rec, CSpeedKey(v)) = Null
                    ELSE Get(rec, CSpeedKey(v)) =
                            JsDiv(rec["ppmSize"], JsDiv(time, Num(1000)))

(***************************************************************************)
(* C13.  With gm missing, or wine missing off Windows, the process exits   *)
(* with code 2, and no file has been collected, materialized, converted    *)
(* or benchmarked; the program goes nowhere else from its checks.          *)
(***************************************************************************)
DependencyMissing == ~gmInPath \/ (~isWindows /\ ~wineInPath)

NoWorkDone ==
    /\ allFiles = << >>
    /\ img = EmptyMap
    /\ ppm = EmptyMap
    /\ invs = EmptyMap

C13_MissingDependencyExits2 ==
    (DependencyMissing /\ pc # "checks") =>
        /\ pc = "exited"
        /\ exitCode = 2
        /\ NoWorkDone

(***************************************************************************)
(* C14.  Every record of the written report has the same keys, those of a  *)
(* record whose four stages all ended well; what a failure left without a  *)
(* value is there as null.                                                 *)
(***************************************************************************)
\* the keys the four loops give a record, less ppmFile which the last deletes
ReportKeys ==
    {"filename", "originalSize", "originalsha256", "ppmSize", "ppmsha256",
     "cTime0.4", "cSpeed0.4", "cSize0.4", "cRatio0.4", "cRatioPPM0.4",
     "cTime0.5", "cSpeed0.5", "cSize0.5", "cRatio0.5", "cRatioPPM0.5",
     "cTimeDiff", "cRatioDiff",
     "dTime0.4", "dSpeed0.4", "roundTrip0.4",
     "dTime0.5", "dSpeed0.5", "dTimeDiff", "roundTrip0.5", "roundTripDiff"}

C14_StableSchema ==
    reportFile.written =>
        \A i \in 1..Len(reportFile.records) :
            DOMAIN reportFile.records[i] = ReportKeys

(***************************************************************************)
(* C15.  A callback one of whose invocations failed ends with the          *)
(* sentinel -1 recorded as the time of its (file, variant), without an     *)
(* exception, and the run goes on to the next file, the next loop or the   *)
(* writing of the report.                                                  *)
(***************************************************************************)
SomeFailed(log) == \E j \in 1..Len(log) : ~log[j].ok

C15_InvocationFailureIsRecorded ==
    [][(FinishStep /\ SomeFailed(last.log)) =>
        /\ Get(RecordOf(report', allFiles[idx]), TimeKey(pass)) = Num(-1)
        /\ rejected' = rejected
        /\ pc' \in {"pass", "write"}]_vars

(***************************************************************************)
(* C16.  The working copy placed in the img folder for a FileRecord keeps  *)
(* the content of that file for the rest of the run: at any later point    *)
(* img/<filename> has the size and hash of the record.                     *)
(***************************************************************************)
C16_WorkingCopyImmutable ==
    \A i \in 1..Len(allFiles) :
        /\ allFiles[i].filename \in DOMAIN img
        /\ img[allFiles[i].filename] =
              <<allFiles[i].originalSize, allFiles[i].originalsha256>>

(***************************************************************************)
(* C17.  No two FileRecords that cleanList returns have the same filename  *)
(* (base name).                                                            *)
(***************************************************************************)
C17_FilenameUnique ==
    pc = "cleaned" =>
        \A i, j \in 1..Len(allFiles) :
            allFiles[i].filename = allFiles[j].filename => i = j

(***************************************************************************)
(* C18.  A variant's result field, once in a record of the report, stays   *)
(* there with its value through every later step of the run: the later     *)
(* loops add keys to the record and leave the earlier ones as they are.    *)
(***************************************************************************)
ResultKeys ==
    {"cTime0.4", "cSpeed0.4", "cSize0.4", "cRatio0.4", "cRatioPPM0.4",
     "dTime0.4", "dSpeed0.4", "roundTrip0.4",
     "cTime0.5", "cSpeed0.5", "cSize0.5", "cRatio0.5", "cRatioPPM0.5",
     "dTime0.5", "dSpeed0.5", "roundTrip0.5"}

C18_ResultsWrittenOnce ==
    [][pc' # "aborted" =>
        \A i \in 1..Len(report) : \A k \in ResultKeys :
            Has(report[i], k) =>
                /\ i <= Len(report')
                /\ Has(report'[i], k)
                /\ report'[i][k] = report[i][k]]_vars

\* two records that all four loops have written to, with different times
C18_Witness ==
    /\ pc = "write"
    /\ Len(report) = 2
    /\ \A i \in 1..2 : \A k \in ResultKeys : Has(report[i], k)
    /\ report[1]["cTime0.4"] # report[1]["dTime0.4"]
    /\ report[2]["cTime0.5"] # report[1]["cTime0.5"]

(***************************************************************************)
(* C19.  Every FileRecord goes through materialization, normalization and  *)
(* benchmarking, in this order and each of them: when its first            *)
(* compressor invocation has started its working copy is in img and its    *)
(* one normalization has completed, and a run that has ended has made all  *)
(* the invocations of the four loops for it.                               *)
(***************************************************************************)
BenchmarkStarted(i) == \E p \in 1..4 : InvOf(i, p) > 0

C19_StagesInOrderOnce ==
    \A i \in 1..Len(allFiles) :
        /\ BenchmarkStarted(i) =>
              /\ allFiles[i].filename \in DOMAIN img
              /\ NormsOf(i) = 1
        /\ (pc = "pass" /\ pass = 1 /\ idx = i /\ Len(times) > 0) =>
              ppm[allFiles[i].filename].st = "complete"
        /\ Ended => \A p \in 1..4 : InvOf(i, p) = 3

(***************************************************************************)
(* C20.  When a decompressor invocation of a (file, variant) has started,  *)
(* the three compressor invocations of the same (file, variant) have been  *)
(* made and have returned: the compression loop of the variant is over.    *)
(***************************************************************************)
CompressPass(v) == IF v = "0.4" THEN 1 ELSE 2

C20_CompressBeforeDecompress ==
    \A i \in 1..Len(allFiles) : \A v \in Variants :
        InvOf(i, DecompressPass(v)) > 0 =>
            /\ InvOf(i, CompressPass(v)) = 3
            /\ pass > CompressPass(v)

\* the second of two files is being decompressed after a failed compression
C20_Witness ==
    /\ pc = "pass"
    /\ pass = 3
    /\ Len(allFiles) = 2
    /\ idx = 2
    /\ InvOf(2, 3) = 1
    /\ InvOf(2, 1) = 3
    /\ Get(RecordOf(report, allFiles[2]), "cTime0.4") = Num(-1)

(***************************************************************************)
(* C21.  At most one timed invocation (a compressor or decompressor run    *)
(* that runSync measures) is in progress at any point of a run, and none   *)
(* starts while one has not returned.                                      *)
(***************************************************************************)
InvocationStarts == invs' # invs

C21_TimedInvocationsSequential ==
    [][/\ inFlight' <= 1
       /\ (inFlight > 0 => ~InvocationStarts)]_vars

\* an invocation that has not returned, after two that have
C21_Witness ==
    /\ pc = "blocked"
    /\ inFlight = 1
    /\ pass = 3
    /\ Len(times) = 2
    /\ InvOf(idx, 3) = 3

(***************************************************************************)
(* C22.  For a FileRecord that is a .ppm file already, the converter is    *)
(* never started, the run does not end at its normalization, and the       *)
(* hash getPPMStatistics keeps for its artifact is the hash of the         *)
(* original file.                                                          *)
(***************************************************************************)
IsCanonical(file) == toLowerCase(file.filename.ext) = ".ppm"

C22_CanonicalIsCopied ==
    \A i \in 1..Len(allFiles) : IsCanonical(allFiles[i]) =>
        /\ NormsOf(i) = 0
        /\ ~(pc = "crashed" /\ idx = i)
        /\ Has(allFiles[i], "ppmsha256") =>
              allFiles[i].ppmsha256 = allFiles[i].originalsha256

(***************************************************************************)
(* C23.  cleanList(traverse(directory)) returns a record only for a file   *)
(* of the folder, at whatever depth, that is not empty and whose           *)
(* extension in lower case is in the allow-list, never for a directory;    *)
(* and every such file has a record with its size and hash.                *)
(***************************************************************************)
\* the regular files below `directory`, each with its place
RECURSIVE RegularFiles(_, _)
RegularFiles(directory, entries) ==
    UNION {IF IsDirectory(entries[i])
           THEN RegularFiles(join(directory, entries[i].stem \o entries[i].ext),
                             entries[i].entries)
           ELSE {MkFile(directory, entries[i].stem, entries[i].ext,
                        <<entries[i].size, entries[i].hash>>)} :
           i \in 1..Len(entries)}

\* the places of the directories below `directory`
RECURSIVE Directories(_, _)
Directories(directory, entries) ==
    UNION {IF IsDirectory(entries[i])
           THEN {[dir |-> directory, stem |-> entries[i].stem,
                  ext |-> entries[i].ext]}
                \cup Directories(join(directory,
                                      entries[i].stem \o entries[i].ext),
                                 entries[i].entries)
           ELSE {} :
           i \in 1..Len(entries)}

C23_OnlyAndAllImages ==
    pc = "cleaned" =>
        LET regular == RegularFiles(".", disk)
        IN  /\ \A i \in 1..Len(allFiles) :
                  /\ allFiles[i].fullname \notin Directories(".", disk)
                  /\ \E f \in regular :
                        /\ allFiles[i].fullname = fullpath(f)
                        /\ allFiles[i].filename = basename(f)
                        /\ HasKeyOf(allFiles[i], f)
                        /\ f.size # 0
                        /\ toLowerCase(f.ext) \in validFileExtensions
            /\ \A f \in regular :
                  (f.size # 0 /\ toLowerCase(f.ext) \in validFileExtensions) =>
                      \E i \in 1..Len(allFiles) : HasKeyOf(allFiles[i], f)

\* a folder with an image in a directory of a directory, kept, beside an
\* empty file and a file that is no image, both left out
C23_Witness ==
    /\ pc = "cleaned"
    /\ Len(disk) = 3
    /\ \E i \in 1..Len(allFiles) : allFiles[i].fullname.dir = "d.jpg/s"
    /\ \E k \in 1..Len(tree) : tree[k].size = 0
    /\ \E k \in 1..Len(tree) : tree[k].ext = ".txt"
    /\ Len(allFiles) < Len(tree)

(***************************************************************************)
(* C24.  Of the files deduper is given (allow-listed ones) that have one   *)
(* size and hash, the record is the one of the file that comes first in    *)
(* the input, and the records are in the order in which their files come   *)
(* first.                                                                  *)
(***************************************************************************)
\* the places in the input of the files with the key of rec
PlacesOf(rec) ==
    {k \in 1..Len(tree) : isCandidate(tree[k]) /\ HasKeyOf(rec, tree[k])}

FirstPlace(rec) == CHOOSE k \in PlacesOf(rec) : \A m \in PlacesOf(rec) : k <= m

C24_FirstSeenKept ==
    pc = "cleaned" =>
        /\ \A i \in 1..Len(allFiles) :
              /\ PlacesOf(allFiles[i]) # {}
              /\ allFiles[i].fullname = fullpath(tree[FirstPlace(allFiles[i])])
              /\ allFiles[i].filename = basename(tree[FirstPlace(allFiles[i])])
        /\ \A i, j \in 1..Len(allFiles) :
              i < j => FirstPlace(allFiles[i]) < FirstPlace(allFiles[j])

\* a file, then another, then a copy of the second under another name
C24_Witness ==
    /\ pc = "cleaned"
    /\ Len(tree) = 3
    /\ \A k \in 1..3 : isCandidate(tree[k])
    /\ tree[3].size = tree[2].size /\ tree[3].hash = tree[2].hash
    /\ basename(tree[3]) # basename(tree[2])
    /\ tree[1].hash # tree[2].hash
    /\ Len(allFiles) = 2
    /\ allFiles[2].fullname = fullpath(tree[2])

(***************************************************************************)
(* C25.  From the end of the first loop on, the report has one record per  *)
(* FileRecord of getAllFiles, in the same order, and nothing else; the     *)
(* later loops leave it so, and so is the report that is written.          *)
(***************************************************************************)
SameFile(rec, file) ==
    /\ Get(rec, "filename") = file.filename
    /\ Get(rec, "originalsha256") = file.originalsha256

OneRecordPerFile(rep) ==
    /\ Len(rep) = Len(allFiles)
    /\ \A i \in 1..Len(allFiles) : SameFile(rep[i], allFiles[i])

C25_OneRecordPerFile ==
    /\ ((pc = "pass" /\ pass >= 2) \/ pc \in {"write", "done"}) =>
          OneRecordPerFile(report)
    /\ pc = "done" =>
          (reportFile.written /\ OneRecordPerFile(reportFile.records))

(***************************************************************************)
(* C26.  A callback of the second, third or fourth loop finds, by          *)
(* originalsha256, a record, and it is the record of its own file (same    *)
(* filename, size and hash); what it writes goes to that record and to no  *)
(* other.                                                                  *)
(***************************************************************************)
C26_LookupFindsOwnRecord ==
    [][(FinishStep /\ pass >= 2) =>
        LET file == allFiles[idx]
            index == findIndex(report, file.originalsha256)
        IN  /\ index # 0
            /\ SameFile(report[index], file)
            /\ Get(report[index], "originalSize") = file.originalSize
            /\ Len(report') = Len(report)
            /\ \A j \in 1..Len(report) : j # index => report'[j] = report[j]]_vars

====
